---------------------------- MODULE Spec2Model ----------------------------
(***************************************************************************)
(* Model of tiny-infini-gram: the suffix scanner, the two blending         *)
(* policies, temperature sampling, the generation loop and the perplexity  *)
(* scorer.                                                                 *)
(*                                                                         *)
(* Representation.  A corpus / context / text is a sequence of bytes drawn *)
(* from Alphabet; byte 0 is the NUL byte.  Go offsets are 0-based, TLA+    *)
(* sequences are 1-based: data[off] in Go is data[off+1] here.  A float64  *)
(* weight is an exact rational <<num, den>> in lowest terms; den = 0       *)
(* stands for +Inf.  math.Log is a fixed-point table (LnMilli) and the     *)
(* log-ratio weights are fixed-point thousandths.  A nil slice is <<>>, a  *)
(* nil map is the empty function.                                          *)
(***************************************************************************)
EXTENDS Integers, Sequences, FiniteSets, TLC

VARIABLES data, op, context, temp, k, levels, combined, weights, ch,
          nValues, matchCounts, nUsed,
          pc, prompt, maxChars, result, levelNs, levelMatches, stats,
          text, contextLen, i, probs, count, ppl

callVars == <<op, context, temp, k, levels, combined, weights, ch,
              nValues, matchCounts, nUsed>>
genVars == <<pc, prompt, maxChars, result, levelNs, levelMatches, stats>>
pplVars == <<text, contextLen, i, probs, count, ppl>>
vars == <<data, callVars, genVars, pplVars>>

---------------------------------------------------------------------------
(* Bounds of the model *)

MaxCorpusLen == 4
MaxCtxLen == 3
MaxK == 2
SampleCorpusLen == 3
SampleCtxLen == 2
GenCorpusLen == 3
GenPromptLen == 2
GenMaxChars == 3
FairCorpusLen == 2

PplCorpusLen == 3
PplTextLen == 3
PplWindow == 2

Alphabet == {0, 1, 2}

SeqsUpTo(S, n) == UNION {[1..m -> S] : m \in 0..n}

Ks == -1..MaxK

---------------------------------------------------------------------------
(* Helpers *)

Max(a, b) == IF a >= b THEN a ELSE b

Min(a, b) == IF a <= b THEN a ELSE b

EmptyMap == [c \in {} |-> 0]

RECURSIVE GCD(_, _)
GCD(a, b) == IF b = 0 THEN a ELSE GCD(b, a % b)

RECURSIVE IntPow(_, _)
IntPow(b, e) == IF e = 0 THEN 1 ELSE b * IntPow(b, e - 1)

(* float64 values as exact rationals in lowest terms; <<1, 0>> is +Inf *)
Rat(n, d) == LET g == GCD(n, d) IN <<n \div g, d \div g>>

Zero == <<0, 1>>

One == <<1, 1>>

Inf == <<1, 0>>

IsInf(x) == x[2] = 0

RatAdd(x, y) ==
    IF IsInf(x) \/ IsInf(y) THEN Inf
    ELSE LET g == GCD(x[2], y[2])
         IN Rat(x[1] * (y[2] \div g) + y[1] * (x[2] \div g),
                (x[2] \div g) * y[2])

RatMul(x, y) == Rat(x[1] * y[1], x[2] * y[2])

RatDiv(x, y) == Rat(x[1] * y[2], x[2] * y[1])

RatPos(x) == x[1] > 0

RECURSIVE RatSum(_, _)
RatSum(f, S) ==
    IF S = {} THEN Zero
    ELSE LET x == CHOOSE y \in S : TRUE
         IN RatAdd(f[x], RatSum(f, S \ {x}))

---------------------------------------------------------------------------
(* The suffix array capability: idx.Lookup(s, -1) and idx.Bytes() *)

PrefixInstead(s, ii) == SubSeq(s, 1, Len(s) - ii)

\* context[i:]
Suffix(s, ii) == SubSeq(s, ii + 1, Len(s))

LookupFirstOnly(d, s) ==
    LET all == IF Len(s) = 0 THEN {}
               ELSE {off \in 0..(Len(d) - Len(s)) :
                        SubSeq(d, off + 1, off + Len(s)) = s}
    IN {off \in all : \A o \in all : off <= o}

\* idx.Lookup(s, -1): every offset where s occurs; nil for the empty pattern
Lookup(d, s) ==
    IF Len(s) = 0 THEN {}
    ELSE {off \in 0..(Len(d) - Len(s)) : SubSeq(d, off + 1, off + Len(s)) = s}

---------------------------------------------------------------------------
(* LevelScanner: the loop of buildDistribution / Sample *)

\* if pos := off + n; pos < len(data)
HasNext(d, pos) == pos < Len(d)

\* counts[data[pos]]++ over the offsets
CountFollowers(d, offsets, n) ==
    LET P == {off + n : off \in {o \in offsets : HasNext(d, o + n)}}
    IN [c \in {d[p + 1] : p \in P} |-> Cardinality({p \in P : d[p + 1] = c})]

RECURSIVE SumOver(_, _)
SumOver(f, S) ==
    IF S = {} THEN 0
    ELSE LET x == CHOOSE y \in S : TRUE
         IN f[x] + SumOver(f, S \ {x})

\* numMatches := 0; for _, c := range counts { numMatches += c }
NumMatches(counts) == SumOver(counts, DOMAIN counts)

LoopGuardOffByOne(ctx, kk, lv, ii) ==
    ii < Len(ctx) - 1 /\ (kk < 0 \/ Len(lv) < kk)

LoopGuardOverBudget(ctx, kk, lv, ii) ==
    ii < Len(ctx) /\ (kk < 0 \/ Len(lv) <= kk)

\* i < len(context) && (k < 0 || len(levels) < k)
LoopGuard(ctx, kk, lv, ii) ==
    ii < Len(ctx) /\ (kk < 0 \/ Len(lv) < kk)

AdmitNotStrict(numMatches, lastNumMatches) == numMatches >= lastNumMatches

\* if numMatches > lastNumMatches
Admit(numMatches, lastNumMatches) == numMatches > lastNumMatches

RECURSIVE ScanLoop(_, _, _, _, _, _)
ScanLoop(d, ctx, kk, ii, lv, last) ==
    IF ~LoopGuard(ctx, kk, lv, ii) THEN lv
    ELSE LET offsets == Lookup(d, Suffix(ctx, ii))
         IN IF offsets = {} THEN ScanLoop(d, ctx, kk, ii + 1, lv, last)
            ELSE LET n == Len(ctx) - ii
                     counts == CountFollowers(d, offsets, n)
                     numMatches == NumMatches(counts)
                 IN IF Admit(numMatches, last)
                    THEN ScanLoop(d, ctx, kk, ii + 1,
                                  Append(lv, [counts |-> counts,
                                              numMatches |-> numMatches,
                                              n |-> n]),
                                  numMatches)
                    ELSE ScanLoop(d, ctx, kk, ii + 1, lv, last)

\* var levels []level; lastNumMatches := 0; for i := 0; ...
ScanLevels(d, ctx, kk) == ScanLoop(d, ctx, kk, 0, <<>>, 0)

---------------------------------------------------------------------------
(* DistributionBlender, rank-decay policy *)

\* decay := 0.1, as the fraction DecayNum / DecayDen
DecayNum == 1

DecayDen == 10

DecayWeightFromOne(ii) ==
    Rat(IntPow(DecayNum, ii + 1), IntPow(DecayDen, ii + 1))

\* w := math.Pow(decay, float64(i))
DecayWeight(ii) == Rat(IntPow(DecayNum, ii), IntPow(DecayDen, ii))

AddWeightedAllSymbols(comb, counts, w) ==
    [c \in Alphabet |->
        RatAdd(IF c \in DOMAIN comb THEN comb[c] ELSE Zero,
               IF c \in DOMAIN counts
               THEN RatMul(w, Rat(counts[c], 1)) ELSE Zero)]

\* for ch, cnt := range lvl.counts { combined[ch] += w * float64(cnt) }
AddWeighted(comb, counts, w) ==
    [c \in (DOMAIN comb) \cup (DOMAIN counts) |->
        RatAdd(IF c \in DOMAIN comb THEN comb[c] ELSE Zero,
               IF c \in DOMAIN counts
               THEN RatMul(w, Rat(counts[c], 1)) ELSE Zero)]

RECURSIVE CombineDecayFrom(_, _, _)
CombineDecayFrom(lv, j, comb) ==
    IF j > Len(lv) THEN comb
    ELSE CombineDecayFrom(lv, j + 1,
                          AddWeighted(comb, lv[j].counts, DecayWeight(j - 1)))

\* combined := make(map[byte]float64); for i, lvl := range levels { ... }
CombineDecay(lv) == CombineDecayFrom(lv, 1, EmptyMap)

\* nValues[i] = lvl.n
NValuesOf(lv) == [j \in 1..Len(lv) |-> lv[j].n]

\* matchCounts[i] = lvl.numMatches
MatchCountsOf(lv) == [j \in 1..Len(lv) |-> lv[j].numMatches]

\* buildDistribution(idx, context, k): (combined, nValues, matchCounts)
buildDistribution(d, ctx, kk) ==
    LET lv == ScanLevels(d, ctx, kk)
    IN IF Len(lv) = 0
       THEN [levels |-> lv, combined |-> EmptyMap,
             nValues |-> <<>>, matchCounts |-> <<>>]
       ELSE [levels |-> lv, combined |-> CombineDecay(lv),
             nValues |-> NValuesOf(lv), matchCounts |-> MatchCountsOf(lv)]

---------------------------------------------------------------------------
(* TemperatureSampler *)

\* temperatures as fractions <<num, den>>: 1.0, 0.5, 0.0 and -1.0
Temps == {<<1, 1>>, <<1, 2>>, <<0, 1>>, <<-1, 1>>}

\* math.Pow(w, 1/temp) for a finite w > 0.  1/temp is +Inf when temp = 0
\* (float division), the integer tt[2] when temp = 1/tt[2] and -tt[2] when
\* temp = -1/tt[2].  Pow(w, +Inf) is +Inf, 1 or 0 as w > 1, w = 1 or w < 1.
Pow(w, tt) ==
    IF tt[1] = 0
    THEN IF w[1] > w[2] THEN Inf ELSE IF w[1] = w[2] THEN One ELSE Zero
    ELSE IF tt[1] > 0
         THEN Rat(IntPow(w[1], tt[2]), IntPow(w[2], tt[2]))
         ELSE Rat(IntPow(w[2], tt[2]), IntPow(w[1], tt[2]))

\* for ch, w := range combined { combined[ch] = math.Pow(w, 1/temp) }
ApplyTemp(comb, tt) == [c \in DOMAIN comb |-> Pow(comb[c], tt)]

\* total += combined[ch]
Total(w) == RatSum(w, DOMAIN w)

\* r := rand.Float64() * total; for ch, w := range combined { if r -= w; r < 0
\* { return ch } }: the symbols some draw r in [0, total) and some iteration
\* order return.  A symbol of weight 0 never turns r negative; with total = +Inf
\* r is +Inf or NaN and no comparison r < 0 succeeds.
Drawable(w) ==
    IF IsInf(Total(w)) THEN {} ELSE {c \in DOMAIN w : RatPos(w[c])}

\* Sample(idx, context, temp, k): the possible (ch, nValues, matchCounts),
\* with the intermediate values of the call
Sample(d, ctx, tt, kk) ==
    LET b == buildDistribution(d, ctx, kk)
    IN IF Len(b.levels) = 0
       THEN {[levels |-> b.levels, combined |-> b.combined,
              weights |-> EmptyMap, ch |-> 0,
              nValues |-> <<>>, matchCounts |-> <<>>]}
       ELSE LET w == ApplyTemp(b.combined, tt)
            IN IF Drawable(w) = {}
               THEN {[levels |-> b.levels, combined |-> b.combined,
                      weights |-> w, ch |-> 0,
                      nValues |-> <<>>, matchCounts |-> <<>>]}
               ELSE {[levels |-> b.levels, combined |-> b.combined,
                      weights |-> w, ch |-> c,
                      nValues |-> b.nValues, matchCounts |-> b.matchCounts]
                     : c \in Drawable(w)}

---------------------------------------------------------------------------
(* main.go: the longest-match sampler and the log-ratio k-level sampler *)

\* weights[ch] = math.Pow(float64(cnt), 1.0/temp)
CountWeights(counts, tt) == [c \in DOMAIN counts |-> Pow(Rat(counts[c], 1), tt)]

\* if len(chars) == 0 { continue }
SkipEmpty(counts) == NumMatches(counts) = 0

RECURSIVE SampleLongestFrom(_, _, _, _, _)
SampleLongestFrom(d, ctx, tt, ii, lastw) ==
    IF ii >= Len(ctx) THEN {[ch |-> 0, n |-> 0, weights |-> lastw]}
    ELSE LET offsets == Lookup(d, Suffix(ctx, ii))
         IN IF offsets = {} THEN SampleLongestFrom(d, ctx, tt, ii + 1, lastw)
            ELSE LET contextLength == Len(ctx) - ii
                     counts == CountFollowers(d, offsets, contextLength)
                 IN IF SkipEmpty(counts)
                    THEN SampleLongestFrom(d, ctx, tt, ii + 1, lastw)
                    ELSE LET w == CountWeights(counts, tt)
                         IN IF Drawable(w) = {}
                            THEN SampleLongestFrom(d, ctx, tt, ii + 1, w)
                            ELSE {[ch |-> c, n |-> contextLength,
                                   weights |-> w] : c \in Drawable(w)}

\* main.go Sample(idx, context, temp): the possible (byte, n)
SampleLongest(d, ctx, tt) == SampleLongestFrom(d, ctx, tt, 0, EmptyMap)

\* i < len(context) && len(levels) < k
LoopGuardK(ctx, kk, lv, ii) == ii < Len(ctx) /\ Len(lv) < kk

RECURSIVE ScanLoopK(_, _, _, _, _, _)
ScanLoopK(d, ctx, kk, ii, lv, lastMatchCount) ==
    IF ~LoopGuardK(ctx, kk, lv, ii) THEN lv
    ELSE LET offsets == Lookup(d, Suffix(ctx, ii))
         IN IF offsets = {} THEN ScanLoopK(d, ctx, kk, ii + 1, lv, lastMatchCount)
            ELSE LET contextLength == Len(ctx) - ii
                     counts == CountFollowers(d, offsets, contextLength)
                     lenChars == NumMatches(counts)
                 IN IF SkipEmpty(counts)
                    THEN ScanLoopK(d, ctx, kk, ii + 1, lv, lastMatchCount)
                    ELSE IF lenChars > lastMatchCount
                    THEN ScanLoopK(d, ctx, kk, ii + 1,
                                   Append(lv, [counts |-> counts,
                                               numMatches |-> lenChars,
                                               n |-> contextLength]),
                                   lenChars)
                    ELSE ScanLoopK(d, ctx, kk, ii + 1, lv, lastMatchCount)

\* SampleK's scan: var levels []level; lastMatchCount := 0; for ...
ScanLevelsK(d, ctx, kk) == ScanLoopK(d, ctx, kk, 0, <<>>, 0)

\* math.Log(x) for x = 1, 2, ..., in thousandths, truncated
LnMilli == <<0, 693, 1098, 1386, 1609, 1791, 1945, 2079, 2197, 2302, 2397, 2484>>

\* weight = math.Log(maxMatches+1) when numMatches == 1, else
\* math.Log(maxMatches+1) / math.Log(numMatches+1); the quotient in
\* thousandths, truncated
LogWeight(numMatches, maxMatches) ==
    IF numMatches = 1
    THEN Rat(LnMilli[maxMatches + 1], 1000)
    ELSE Rat((LnMilli[maxMatches + 1] * 1000) \div LnMilli[numMatches + 1],
             1000)

RECURSIVE CombineLogFrom(_, _, _, _)
CombineLogFrom(lv, j, maxMatches, comb) ==
    IF j > Len(lv) THEN comb
    ELSE CombineLogFrom(lv, j + 1, maxMatches,
                        AddWeighted(comb, lv[j].counts,
                                    LogWeight(lv[j].numMatches, maxMatches)))

\* maxMatches := levels[len(levels)-1].numMatches; for _, lvl := range levels
CombineLog(lv) == CombineLogFrom(lv, 1, lv[Len(lv)].numMatches, EmptyMap)

\* SampleK(idx, context, temp, k): the possible (byte, nValues)
SampleK(d, ctx, tt, kk) ==
    LET lv == ScanLevelsK(d, ctx, kk)
    IN IF Len(lv) = 0
       THEN {[levels |-> lv, combined |-> EmptyMap, weights |-> EmptyMap,
              ch |-> 0, nValues |-> <<>>]}
       ELSE LET comb == CombineLog(lv)
                w == ApplyTemp(comb, tt)
            IN IF Drawable(w) = {}
               THEN {[levels |-> lv, combined |-> comb, weights |-> w,
                      ch |-> 0, nValues |-> <<>>]}
               ELSE {[levels |-> lv, combined |-> comb, weights |-> w,
                      ch |-> c, nValues |-> NValuesOf(lv)]
                     : c \in Drawable(w)}

---------------------------------------------------------------------------
(* The log-ratio k-level sampler of the second program of part_001 *)

\* i < len(context) && len(levels) < k
LoopGuardLog(ctx, kk, lv, ii) == ii < Len(ctx) /\ Len(lv) < kk

RECURSIVE ScanLoopLog(_, _, _, _, _, _)
ScanLoopLog(d, ctx, kk, ii, lv, last) ==
    IF ~LoopGuardLog(ctx, kk, lv, ii) THEN lv
    ELSE LET offsets == Lookup(d, Suffix(ctx, ii))
         IN IF offsets = {} THEN ScanLoopLog(d, ctx, kk, ii + 1, lv, last)
            ELSE LET n == Len(ctx) - ii
                     counts == CountFollowers(d, offsets, n)
                     numMatches == NumMatches(counts)
                 IN IF numMatches > last
                    THEN ScanLoopLog(d, ctx, kk, ii + 1,
                                     Append(lv, [counts |-> counts,
                                                 numMatches |-> numMatches,
                                                 n |-> n]),
                                     numMatches)
                    ELSE ScanLoopLog(d, ctx, kk, ii + 1, lv, last)

\* var levels []Level; lastNumMatches := 0; for i := 0; ...
ScanLevelsLog(d, ctx, kk) == ScanLoopLog(d, ctx, kk, 0, <<>>, 0)

\* w := math.Log(maxNumMatches+1) / math.Max(1, math.Log(numMatches+1)); the
\* quotient in thousandths, truncated
LogWeightMax1(numMatches, maxNumMatches) ==
    Rat((LnMilli[maxNumMatches + 1] * 1000)
            \div Max(1000, LnMilli[numMatches + 1]),
        1000)

RECURSIVE CombineLogMax1From(_, _, _, _)
CombineLogMax1From(lv, j, maxNumMatches, comb) ==
    IF j > Len(lv) THEN comb
    ELSE CombineLogMax1From(lv, j + 1, maxNumMatches,
                            AddWeighted(comb, lv[j].counts,
                                        LogWeightMax1(lv[j].numMatches,
                                                      maxNumMatches)))

\* maxNumMatches := float64(levels[len(levels)-1].numMatches); for i, lvl := ...
CombineLogMax1(lv) ==
    CombineLogMax1From(lv, 1, lv[Len(lv)].numMatches, EmptyMap)

\* the log-ratio Sample(idx, context, temp, k): the possible (byte, nValues)
SampleLog(d, ctx, tt, kk) ==
    LET lv == ScanLevelsLog(d, ctx, kk)
    IN IF Len(lv) = 0
       THEN {[levels |-> lv, combined |-> EmptyMap, weights |-> EmptyMap,
              ch |-> 0, nValues |-> <<>>]}
       ELSE LET comb == CombineLogMax1(lv)
                w == ApplyTemp(comb, tt)
            IN IF Drawable(w) = {}
               THEN {[levels |-> lv, combined |-> comb, weights |-> w,
                      ch |-> 0, nValues |-> <<>>]}
               ELSE {[levels |-> lv, combined |-> comb, weights |-> w,
                      ch |-> c, nValues |-> NValuesOf(lv)]
                     : c \in Drawable(w)}

---------------------------------------------------------------------------
(* Generator *)

\* start := max(0, len(result)-200)
ContextWindow == 200

WindowDropLast(r) ==
    SubSeq(r, Max(0, Len(r) - ContextWindow) + 1, Len(r) - 1)

\* string(result[start:])
Window(r) == SubSeq(r, Max(0, Len(r) - ContextWindow) + 1, Len(r))

LoopCondInclusive(r, mc) == Len(r) <= mc

\* for len(result) < maxChars
LoopCond(r, mc) == Len(r) < mc

NoSymbolNever(c) == FALSE

\* if ch == 0 { break }
NoSymbol(c) == c = 0

\* for i, n := range ns { for len(levelNs) <= i { levelNs = append(levelNs,
\* nil) }; levelNs[i] = append(levelNs[i], n) }
RecordRanks(hist, vals) ==
    [j \in 1..Max(Len(hist), Len(vals)) |->
        (IF j <= Len(hist) THEN hist[j] ELSE <<>>) \o
        (IF j <= Len(vals) THEN <<vals[j]>> ELSE <<>>)]

RECURSIVE InsertSorted(_, _)
InsertSorted(sq, v) ==
    IF sq = <<>> THEN <<v>>
    ELSE IF v <= Head(sq) THEN <<v>> \o sq
         ELSE <<Head(sq)>> \o InsertSorted(Tail(sq), v)

RECURSIVE SortInts(_)
SortInts(vals) ==
    IF vals = <<>> THEN <<>>
    ELSE InsertSorted(SortInts(Tail(vals)), Head(vals))

RECURSIVE SeqSum(_)
SeqSum(vals) == IF vals = <<>> THEN 0 ELSE Head(vals) + SeqSum(Tail(vals))

\* the squared deviations from the mean, times len(vals)^2
RECURSIVE DevSum(_, _, _)
DevSum(vals, total, len) ==
    IF vals = <<>> THEN 0
    ELSE (Head(vals) * len - total) * (Head(vals) * len - total)
         + DevSum(Tail(vals), total, len)

\* meanStdMedian(vals): the mean, the variance (std is its square root) and
\* the median
meanStdMedian(vals) ==
    IF Len(vals) = 0 THEN [mean |-> Zero, var |-> Zero, median |-> Zero]
    ELSE LET len == Len(vals)
             total == SeqSum(vals)
             sorted == SortInts(vals)
         IN [mean |-> Rat(total, len),
             var |-> Rat(DevSum(vals, total, len), len * len * len),
             median |-> IF len % 2 = 0
                        THEN Rat(sorted[len \div 2] + sorted[len \div 2 + 1], 2)
                        ELSE Rat(sorted[len \div 2 + 1], 1)]

\* stats := make([]LevelStats, max(len(levelNs), len(levelMatches))); ...
LevelStatsOf(lns, lms) ==
    [j \in 1..Max(Len(lns), Len(lms)) |->
        [n |-> IF j <= Len(lns) /\ Len(lns[j]) > 0
               THEN meanStdMedian(lns[j]) ELSE meanStdMedian(<<>>),
         match |-> IF j <= Len(lms) /\ Len(lms[j]) > 0
                   THEN meanStdMedian(lms[j]) ELSE meanStdMedian(<<>>)]]

---------------------------------------------------------------------------
(* main.go: GenerateK *)

\* contextStart := 0; if len(result) > 200 { contextStart = len(result) - 200 }
WindowK(r) ==
    IF Len(r) > ContextWindow
    THEN SubSeq(r, Len(r) - ContextWindow + 1, Len(r))
    ELSE r

\* for i, n := range nValues { if i < k { levelNs[i] = append(levelNs[i], n) } }
RecordRanksK(hist, vals, kk) ==
    [j \in 1..Len(hist) |->
        IF j <= Len(vals) /\ j - 1 < kk THEN Append(hist[j], vals[j])
        ELSE hist[j]]

\* calcStats(values): Values, Mean and Var; the zero NStats for no values
calcStats(values) ==
    IF Len(values) = 0 THEN [values |-> <<>>, mean |-> Zero, var |-> Zero]
    ELSE LET len == Len(values)
             total == SeqSum(values)
         IN [values |-> values,
             mean |-> Rat(total, len),
             var |-> Rat(DevSum(values, total, len), len * len * len)]

---------------------------------------------------------------------------
(* PerplexityEvaluator *)

ContextWholePrefix(t, ii, cl) == SubSeq(t, 1, ii)

\* start := max(0, i-contextLen); context := text[start:i]
PplContext(t, ii, cl) == SubSeq(t, Max(0, ii - cl) + 1, ii)

\* total += w over dist; dist[ch] /= total
Normalize(dist) ==
    LET total == Total(dist)
    IN [c \in DOMAIN dist |-> RatDiv(dist[c], total)]

\* p := dist[text[i]]: the zero value when the key is absent
ProbOf(dist, c) == IF c \in DOMAIN dist THEN dist[c] ELSE Zero

SmoothedOnlyWhenNil(distNil, p) == distNil

\* the branches that add math.Log(1e-10): dist == nil, or not p > 0
Smoothed(distNil, p) == distNil \/ ~RatPos(p)

\* the term one position adds to logProbSum: math.Log(p), or math.Log(1e-10)
\* when smoothed
LogTerm(d, t, ii, kk, cl) ==
    LET ctx == PplContext(t, ii, cl)
        b == buildDistribution(d, ctx, kk)
        distNil == Len(b.levels) = 0
        p == IF distNil THEN Zero ELSE ProbOf(Normalize(b.combined), t[ii + 1])
    IN [i |-> ii, context |-> ctx, smoothed |-> Smoothed(distNil, p),
        p |-> IF Smoothed(distNil, p) THEN Zero ELSE p]

\* math.Exp(-logProbSum / float64(count)): NaN when count = 0 (0/0), exactly 1
\* when every term is math.Log(1) = 0, and otherwise the exponential of the
\* negated mean of the terms
ExpMeanNegLog(terms, cnt) ==
    [terms |-> terms, count |-> cnt,
     isNaN |-> cnt = 0,
     isOne |-> cnt > 0 /\ \A j \in 1..Len(terms) :
                   ~terms[j].smoothed /\ terms[j].p = One]

---------------------------------------------------------------------------
(* State machine: calls of the pure entry points on a fixed corpus *)

Idle ==
    /\ op = "none"
    /\ levels = <<>> /\ combined = EmptyMap /\ weights = EmptyMap
    /\ ch = 0 /\ nValues = <<>> /\ matchCounts = <<>> /\ nUsed = 0
    /\ pc = "idle" /\ prompt = <<>> /\ maxChars = 0 /\ result = <<>>
    /\ levelNs = <<>> /\ levelMatches = <<>> /\ stats = <<>>
    /\ text = <<>> /\ contextLen = 0 /\ i = 0 /\ probs = <<>> /\ count = 0
    /\ ppl = <<>>

\* a corpus, a context and a level budget; nothing called yet
Init ==
    /\ data \in SeqsUpTo(Alphabet, MaxCorpusLen)
    /\ context \in SeqsUpTo(Alphabet, MaxCtxLen)
    /\ k \in Ks
    /\ temp = One
    /\ Idle

\* one call of buildDistribution(idx, context, k)
BuildDistributionCall ==
    /\ op = "none"
    /\ LET r == buildDistribution(data, context, k)
       IN /\ op' = "buildDistribution"
          /\ levels' = r.levels
          /\ combined' = r.combined
          /\ nValues' = r.nValues
          /\ matchCounts' = r.matchCounts
    /\ UNCHANGED <<data, context, k, temp, weights, ch, nUsed, genVars, pplVars>>

Next == BuildDistributionCall

Spec == Init /\ [][Next]_vars

---------------------------------------------------------------------------
(* State machine of the samplers: one call on a corpus, context, temperature
   and level budget *)

InitSample ==
    /\ data \in SeqsUpTo(Alphabet, SampleCorpusLen)
    /\ context \in SeqsUpTo(Alphabet, SampleCtxLen)
    /\ k \in Ks
    /\ temp \in Temps
    /\ Idle

\* one call of Sample(idx, context, temp, k)
SampleCall ==
    /\ op = "none"
    /\ \E o \in Sample(data, context, temp, k) :
          /\ op' = "Sample"
          /\ levels' = o.levels
          /\ combined' = o.combined
          /\ weights' = o.weights
          /\ ch' = o.ch
          /\ nValues' = o.nValues
          /\ matchCounts' = o.matchCounts
    /\ UNCHANGED <<data, context, k, temp, nUsed, genVars, pplVars>>

\* one call of main.go's Sample(idx, context, temp)
SampleLongestCall ==
    /\ op = "none"
    /\ \E o \in SampleLongest(data, context, temp) :
          /\ op' = "SampleLongest"
          /\ weights' = o.weights
          /\ ch' = o.ch
          /\ nUsed' = o.n
    /\ UNCHANGED <<data, context, k, temp, levels, combined, nValues,
                   matchCounts, genVars, pplVars>>

\* one call of main.go's SampleK(idx, context, temp, k)
SampleKCall ==
    /\ op = "none"
    /\ \E o \in SampleK(data, context, temp, k) :
          /\ op' = "SampleK"
          /\ levels' = o.levels
          /\ combined' = o.combined
          /\ weights' = o.weights
          /\ ch' = o.ch
          /\ nValues' = o.nValues
    /\ UNCHANGED <<data, context, k, temp, matchCounts, nUsed, genVars, pplVars>>

\* one call of the log-ratio Sample(idx, context, temp, k)
SampleLogCall ==
    /\ op = "none"
    /\ \E o \in SampleLog(data, context, temp, k) :
          /\ op' = "SampleLog"
          /\ levels' = o.levels
          /\ combined' = o.combined
          /\ weights' = o.weights
          /\ ch' = o.ch
          /\ nValues' = o.nValues
    /\ UNCHANGED <<data, context, k, temp, matchCounts, nUsed, genVars, pplVars>>

NextSample ==
    SampleCall \/ SampleLongestCall \/ SampleKCall \/ SampleLogCall

SpecSample == InitSample /\ [][NextSample]_vars

---------------------------------------------------------------------------
(* State machine of Generate(idx, prompt, maxChars, temp, k) *)

GenTemps == {<<1, 1>>, <<0, 1>>}

GenKs == {-1, 0, 1}

InitGen ==
    /\ data \in SeqsUpTo(Alphabet, GenCorpusLen)
    /\ prompt \in SeqsUpTo(Alphabet, GenPromptLen)
    /\ maxChars \in 0..GenMaxChars
    /\ temp \in GenTemps
    /\ k \in GenKs
    /\ op = "none" /\ context = <<>>
    /\ levels = <<>> /\ combined = EmptyMap /\ weights = EmptyMap
    /\ ch = 0 /\ nValues = <<>> /\ matchCounts = <<>> /\ nUsed = 0
    /\ pc = "idle" /\ result = <<>>
    /\ levelNs = <<>> /\ levelMatches = <<>> /\ stats = <<>>
    /\ text = <<>> /\ contextLen = 0 /\ i = 0 /\ probs = <<>> /\ count = 0
    /\ ppl = <<>>

\* result := []byte(prompt); var levelNs, levelMatches [][]int
GenerateStart ==
    /\ pc = "idle"
    /\ pc' = "loop"
    /\ result' = prompt
    /\ levelNs' = <<>>
    /\ levelMatches' = <<>>
    /\ UNCHANGED <<data, callVars, prompt, maxChars, stats, pplVars>>

\* one iteration of the loop: Sample on the trailing window, then break or
\* append and record the per-rank values
GenerateIter ==
    /\ pc = "loop"
    /\ LoopCond(result, maxChars)
    /\ context' = Window(result)
    /\ op' = "Sample"
    /\ \E o \in Sample(data, Window(result), temp, k) :
          /\ levels' = o.levels
          /\ combined' = o.combined
          /\ weights' = o.weights
          /\ ch' = o.ch
          /\ nValues' = o.nValues
          /\ matchCounts' = o.matchCounts
          /\ IF NoSymbol(o.ch)
             THEN /\ pc' = "break"
                  /\ UNCHANGED <<result, levelNs, levelMatches>>
             ELSE /\ pc' = "loop"
                  /\ result' = Append(result, o.ch)
                  /\ levelNs' = RecordRanks(levelNs, o.nValues)
                  /\ levelMatches' = RecordRanks(levelMatches, o.matchCounts)
    /\ UNCHANGED <<data, temp, k, nUsed, prompt, maxChars, stats, pplVars>>

LoopLeft == IF pc = "break" THEN TRUE ELSE pc = "loop" /\ ~LoopCond(result, maxChars)

\* after the loop: the per-rank statistics, return string(result), stats
GenerateReturn ==
    /\ LoopLeft
    /\ pc' = "done"
    /\ stats' = LevelStatsOf(levelNs, levelMatches)
    /\ UNCHANGED <<data, callVars, prompt, maxChars, result, levelNs,
                   levelMatches, pplVars>>

\* GenerateK: result := []byte(prompt); levelNs := make([][]int, k), each
\* []int{}.  make panics for k < 0 (makeslice: len out of range) and the
\* call stops there.
GenerateKStart ==
    /\ pc = "idle"
    /\ result' = prompt
    /\ IF k < 0
       THEN pc' = "panic" /\ UNCHANGED levelNs
       ELSE pc' = "kloop" /\ levelNs' = [j \in 1..k |-> <<>>]
    /\ UNCHANGED <<data, callVars, prompt, maxChars, levelMatches, stats,
                   pplVars>>

\* one iteration of GenerateK's loop: SampleK on the trailing window, then
\* break or append and record the n of each level
GenerateKIter ==
    /\ pc = "kloop"
    /\ LoopCond(result, maxChars)
    /\ context' = WindowK(result)
    /\ op' = "SampleK"
    /\ \E o \in SampleK(data, WindowK(result), temp, k) :
          /\ levels' = o.levels
          /\ combined' = o.combined
          /\ weights' = o.weights
          /\ ch' = o.ch
          /\ nValues' = o.nValues
          /\ IF NoSymbol(o.ch)
             THEN /\ pc' = "kbreak"
                  /\ UNCHANGED <<result, levelNs>>
             ELSE /\ pc' = "kloop"
                  /\ result' = Append(result, o.ch)
                  /\ levelNs' = RecordRanksK(levelNs, o.nValues, k)
    /\ UNCHANGED <<data, temp, k, matchCounts, nUsed, prompt, maxChars,
                   levelMatches, stats, pplVars>>

LoopLeftK ==
    IF pc = "kbreak" THEN TRUE
    ELSE pc = "kloop" /\ ~LoopCond(result, maxChars)

\* after the loop: stats.PerLevel[i] = calcStats(levelNs[i]); return
GenerateKReturn ==
    /\ LoopLeftK
    /\ pc' = "kdone"
    /\ stats' = [j \in 1..k |-> calcStats(levelNs[j])]
    /\ UNCHANGED <<data, callVars, prompt, maxChars, result, levelNs,
                   levelMatches, pplVars>>

NextGen ==
    \/ GenerateStart \/ GenerateIter \/ GenerateReturn
    \/ GenerateKStart \/ GenerateKIter \/ GenerateKReturn

SpecGen == InitGen /\ [][NextGen]_vars

\* the model is trained; no call has been made and the arguments are unset
InitGenFair ==
    /\ data \in SeqsUpTo(Alphabet, FairCorpusLen)
    /\ prompt = <<>> /\ maxChars = 0 /\ temp = One /\ k = 0
    /\ op = "none" /\ context = <<>>
    /\ levels = <<>> /\ combined = EmptyMap /\ weights = EmptyMap
    /\ ch = 0 /\ nValues = <<>> /\ matchCounts = <<>> /\ nUsed = 0
    /\ pc = "new" /\ result = <<>>
    /\ levelNs = <<>> /\ levelMatches = <<>> /\ stats = <<>>
    /\ text = <<>> /\ contextLen = 0 /\ i = 0 /\ probs = <<>> /\ count = 0
    /\ ppl = <<>>

\* the caller's arguments: Generate(prompt, maxChars, temperature, k)
GenerateArgs ==
    /\ pc = "new"
    /\ pc' = "idle"
    /\ prompt' \in SeqsUpTo(Alphabet, GenPromptLen)
    /\ maxChars' \in 0..GenMaxChars
    /\ temp' \in GenTemps
    /\ k' \in GenKs
    /\ UNCHANGED <<data, op, context, levels, combined, weights, ch, nValues,
                   matchCounts, nUsed, result, levelNs, levelMatches, stats,
                   pplVars>>

NextGenFair == GenerateArgs \/ NextGen

\* the loop body can run: Sample and SampleK always return some outcome, so
\* an iteration is enabled exactly when the loop condition holds
IterEnabled == pc = "loop" /\ LoopCond(result, maxChars)

IterKEnabled == pc = "kloop" /\ LoopCond(result, maxChars)

\* weak fairness of the loop body, WF_vars(GenerateIter) with its enabling
\* condition written out
FairIter == []<>(~IterEnabled) \/ []<><<GenerateIter>>_vars

FairIterK == []<>(~IterKEnabled) \/ []<><<GenerateKIter>>_vars

\* a call runs to completion: single-threaded, synchronous, no step of the
\* call waits on anything, so every step is taken when it can be
SpecGenFair ==
    /\ InitGenFair /\ [][NextGenFair]_vars
    /\ WF_vars(GenerateArgs)
    /\ WF_vars(GenerateStart \/ GenerateKStart)
    /\ WF_vars(GenerateReturn \/ GenerateKReturn)
    /\ FairIter /\ FairIterK

---------------------------------------------------------------------------
(* State machine of Perplexity(idx, text, k, contextLen) *)

\* the train text "ABABAB" and the eval text "AB", with A = 1 and B = 2
TrainABABAB == <<1, 2, 1, 2, 1, 2>>

EvalAB == <<1, 2>>

PplKs == {-1, 0, 1}

InitPpl ==
    /\ data \in SeqsUpTo(Alphabet, PplCorpusLen) \cup {TrainABABAB}
    /\ text \in SeqsUpTo(Alphabet, PplTextLen)
    /\ k \in PplKs
    /\ contextLen \in 0..PplWindow
    /\ op = "none" /\ context = <<>> /\ temp = One
    /\ levels = <<>> /\ combined = EmptyMap /\ weights = EmptyMap
    /\ ch = 0 /\ nValues = <<>> /\ matchCounts = <<>> /\ nUsed = 0
    /\ pc = "idle" /\ prompt = <<>> /\ maxChars = 0 /\ result = <<>>
    /\ levelNs = <<>> /\ levelMatches = <<>> /\ stats = <<>>
    /\ i = 0 /\ probs = <<>> /\ count = 0 /\ ppl = <<>>

\* var logProbSum float64; var count int; i := 1
PerplexityStart ==
    /\ pc = "idle"
    /\ pc' = "scoring"
    /\ i' = 1
    /\ probs' = <<>>
    /\ count' = 0
    /\ UNCHANGED <<data, callVars, prompt, maxChars, result, levelNs,
                   levelMatches, stats, text, contextLen, ppl>>

\* one iteration of for i := 1; i < len(text); i++
PerplexityIter ==
    /\ pc = "scoring"
    /\ i < Len(text)
    /\ probs' = Append(probs, LogTerm(data, text, i, k, contextLen))
    /\ count' = count + 1
    /\ i' = i + 1
    /\ UNCHANGED <<data, callVars, pc, prompt, maxChars, result, levelNs,
                   levelMatches, stats, text, contextLen, ppl>>

\* return math.Exp(-logProbSum / float64(count))
PerplexityReturn ==
    /\ pc = "scoring"
    /\ ~(i < Len(text))
    /\ pc' = "scored"
    /\ ppl' = ExpMeanNegLog(probs, count)
    /\ UNCHANGED <<data, callVars, prompt, maxChars, result, levelNs,
                   levelMatches, stats, text, contextLen, i, probs, count>>

NextPpl == PerplexityStart \/ PerplexityIter \/ PerplexityReturn

SpecPpl == InitPpl /\ [][NextPpl]_vars

---------------------------------------------------------------------------
(* Claims about the scanner, under Spec *)

\* s occurs in d at 0-based offset off
OccursAt(d, s, off) ==
    /\ off >= 0 /\ off + Len(s) <= Len(d)
    /\ \A j \in 1..Len(s) : d[off + j] = s[j]

Occurs(d, s) == \E off \in 0..Len(d) : OccursAt(d, s, off)

\* s occurs in d at an offset where a symbol follows it
OccursFollowed(d, s) ==
    \E off \in 0..Len(d) : OccursAt(d, s, off) /\ off + Len(s) < Len(d)

(* C1: the admitted levels, longest suffix first, have strictly increasing
   totalMatches and strictly decreasing n; every level has totalMatches >= 1
   and 1 <= n <= len(context), for every k including the unbounded one. *)
C1_LevelsStrictlyOrdered ==
    op = "buildDistribution" =>
        /\ \A j \in 1..Len(levels) :
              /\ levels[j].numMatches >= 1
              /\ levels[j].n >= 1
              /\ levels[j].n <= Len(context)
        /\ \A j \in 1..(Len(levels) - 1) :
              /\ levels[j].numMatches < levels[j + 1].numMatches
              /\ levels[j].n > levels[j + 1].n

C1_Witness ==
    /\ op = "buildDistribution" /\ k < 0 /\ Len(levels) >= 3

(* C2 as stated: a context with a non-empty prefix occurring in the corpus
   gets at least one level when k >= 1 or k is unbounded. *)
C2_PrefixOccursGivesLevel ==
    (/\ op = "buildDistribution"
     /\ k # 0
     /\ \E m \in 1..Len(context) : Occurs(data, SubSeq(context, 1, m)))
        => Len(levels) >= 1

(* C2 amended: a context with a non-empty suffix that occurs in the corpus
   immediately followed by a symbol gets at least one level when k >= 1 or
   k is unbounded. *)
C2_FollowedSuffixGivesLevel ==
    (/\ op = "buildDistribution"
     /\ k # 0
     /\ \E ii \in 0..(Len(context) - 1) :
            OccursFollowed(data, Suffix(context, ii)))
        => Len(levels) >= 1

C2_Witness ==
    /\ op = "buildDistribution" /\ k = 1 /\ Len(levels) = 1
    /\ Len(context) = 3
    /\ ~Occurs(data, context)
    /\ ~OccursFollowed(data, Suffix(context, 1))
    /\ Occurs(data, Suffix(context, 1))
    /\ levels[1].n = 1

(* C9: for k >= 0 the levels admitted with budget k are exactly the first
   min(k, m) levels of the m levels admitted with the unbounded sentinel. *)
C9_BudgetTruncates ==
    (op = "buildDistribution" /\ k >= 0) =>
        LET all == ScanLevels(data, context, -1)
        IN /\ levels = SubSeq(all, 1, Min(k, Len(all)))
           /\ Len(levels) <= k

C9_Witness ==
    /\ op = "buildDistribution" /\ k = 1 /\ Len(levels) = 1
    /\ Len(ScanLevels(data, context, -1)) >= 2
    /\ levels[1].n < Len(context)

---------------------------------------------------------------------------
(* Claims about the samplers, under SpecSample *)

\* the blended map of the call is one of the two policies' output
Blended == op \in {"Sample", "SampleK", "SampleLog"}

FollowerKeys(lv) == UNION {DOMAIN lv[j].counts : j \in 1..Len(lv)}

\* c follows an occurrence of the length-n suffix of ctx in d
FollowsSuffix(d, ctx, n, c) ==
    \E off \in 0..Len(d) :
        /\ OccursAt(d, SubSeq(ctx, Len(ctx) - n + 1, Len(ctx)), off)
        /\ off + n < Len(d)
        /\ d[off + n + 1] = c

(* C5: a call of Sample with temperature <= 0 is rejected: no weight is
   computed as w^(1/temperature) and no symbol is drawn. *)
C5_NonPositiveTempRejected ==
    (op = "Sample" /\ temp[1] <= 0) =>
        /\ weights = EmptyMap
        /\ nValues = <<>> /\ matchCounts = <<>> /\ ch = 0

(* C6 as stated: whenever some non-empty suffix of the context occurs in the
   corpus, the longest-match sampler (called with a valid temperature > 0)
   returns the length of the longest such suffix and a byte that follows an
   occurrence of it. *)
C6_LongestOccurringSuffix ==
    (/\ op = "SampleLongest"
     /\ temp[1] > 0
     /\ \E ii \in 0..(Len(context) - 1) : Occurs(data, Suffix(context, ii)))
        => /\ nUsed >= 1
           /\ Occurs(data, Suffix(context, Len(context) - nUsed))
           /\ \A ii \in 0..(Len(context) - 1) :
                 Occurs(data, Suffix(context, ii)) => Len(context) - ii <= nUsed
           /\ FollowsSuffix(data, context, nUsed, ch)

(* C6 amended: whenever the longest-match sampler returns n > 0, the returned
   byte follows an occurrence of the context's suffix of length n in the
   corpus; and with temperature > 0, whenever some non-empty suffix of the
   context occurs in the corpus followed by a symbol, n is the length of the
   longest such suffix, and otherwise the result is (0, 0). *)
C6_LongestFollowedSuffix ==
    op = "SampleLongest" =>
        /\ nUsed >= 0 /\ nUsed <= Len(context)
        /\ nUsed > 0 => FollowsSuffix(data, context, nUsed, ch)
        /\ nUsed = 0 => ch = 0
        /\ temp[1] > 0 =>
              /\ \A ii \in 0..(Len(context) - 1) :
                    OccursFollowed(data, Suffix(context, ii))
                        => Len(context) - ii <= nUsed
              /\ (\E ii \in 0..(Len(context) - 1) :
                    OccursFollowed(data, Suffix(context, ii))) => nUsed > 0

C6_Witness ==
    /\ op = "SampleLongest" /\ temp[1] > 0
    /\ Len(context) = 2 /\ nUsed = 1
    /\ Occurs(data, context)
    /\ ~OccursFollowed(data, context)

(* C8: under both blending policies the keys of the blended map are exactly
   the follower symbols of the admitted levels, each key was observed in the
   corpus as a follower of an admitted suffix, and every weight is strictly
   positive (and finite). *)
C8_BlendedKeysAreFollowers ==
    Blended =>
        /\ DOMAIN combined = FollowerKeys(levels)
        /\ \A c \in DOMAIN combined :
              /\ RatPos(combined[c]) /\ ~IsInf(combined[c])
              /\ \E j \in 1..Len(levels) :
                    FollowsSuffix(data, context, levels[j].n, c)

C8_Witness ==
    /\ op = "SampleK" /\ Len(levels) = 2
    /\ DOMAIN combined # DOMAIN levels[1].counts
    /\ Cardinality(DOMAIN combined) = 2

C8_WitnessDecay ==
    /\ op = "Sample" /\ Len(levels) = 2
    /\ DOMAIN combined # DOMAIN levels[1].counts
    /\ Cardinality(DOMAIN combined) = 2

\* the raw counts of a level as a weight map, each scaled by the factor f
ScaledCounts(lvl, f) ==
    [c \in DOMAIN lvl.counts |-> RatMul(f, Rat(lvl.counts[c], 1))]

\* the plain frequency table of a level: counts / totalMatches
FrequencyTable(lvl) ==
    [c \in DOMAIN lvl.counts |-> Rat(lvl.counts[c], lvl.numMatches)]

\* a blended map divided by the sum of its weights
NormalizedMap(m) ==
    [c \in DOMAIN m |-> RatDiv(m[c], RatSum(m, DOMAIN m))]

LogRatio == op \in {"SampleK", "SampleLog"}

(* C11 as stated: a single admitted level is blended with weight factor 1
   under either policy, for every totalMatches >= 1: the blended map equals
   the level's raw counts. *)
C11_SingleLevelIsRawCounts ==
    (Blended /\ Len(levels) = 1) => combined = ScaledCounts(levels[1], One)

(* C11 amended: a single admitted level is blended with weight factor 1
   under rank-decay for every totalMatches >= 1, and under log-ratio for
   every totalMatches >= 2, where the blended map equals the raw counts and
   the two policies return the same map; under log-ratio with
   totalMatches = 1 the factor is log(2), not 1.  In every case the
   normalized blended map is the level's plain frequency table. *)
C11_SingleLevelFactor ==
    (Blended /\ Len(levels) = 1) =>
        /\ op = "Sample" => combined = ScaledCounts(levels[1], One)
        /\ (LogRatio /\ levels[1].numMatches >= 2) =>
              /\ combined = ScaledCounts(levels[1], One)
              /\ combined = CombineDecay(levels)
        /\ (LogRatio /\ levels[1].numMatches = 1) =>
              /\ combined = ScaledCounts(levels[1], Rat(LnMilli[2], 1000))
              /\ combined # CombineDecay(levels)
        /\ NormalizedMap(combined) = FrequencyTable(levels[1])

C11_Witness ==
    /\ op = "SampleK" /\ Len(levels) = 1
    /\ levels[1].numMatches >= 2
    /\ Cardinality(DOMAIN combined) = 2

C11_WitnessOneMatch ==
    /\ op = "SampleLog" /\ Len(levels) = 1
    /\ levels[1].numMatches = 1

\* the corpus offsets where s occurs with the symbol c right after it
FollowedOffsets(d, s, c) ==
    {o \in 0..Len(d) :
        /\ OccursAt(d, s, o)
        /\ o + Len(s) < Len(d)
        /\ d[o + Len(s) + 1] = c}

\* the table counts is the follower table of s: a key for exactly the symbols
\* that follow s somewhere, with the number of such offsets, and total is the
\* sum of the table
IsFollowerTable(d, s, counts, total) ==
    /\ DOMAIN counts = {c \in Alphabet : FollowedOffsets(d, s, c) # {}}
    /\ \A c \in DOMAIN counts :
          counts[c] = Cardinality(FollowedOffsets(d, s, c))
    /\ total = Cardinality({o \in 0..Len(d) :
                               OccursAt(d, s, o) /\ o + Len(s) < Len(d)})

\* s occurs in d, and only at the very end of d
OccursOnlyAtEnd(d, s) == Occurs(d, s) /\ ~OccursFollowed(d, s)

(* C12: for every candidate suffix s of length n the table the scanner
   builds has counts[c] = the number of offsets o with corpus[o .. o+n) = s,
   o+n < len(corpus) and corpus[o+n] = c, and totalMatches = the sum of the
   counts; an occurrence ending the corpus is never counted, so a suffix
   whose only occurrences end the corpus has totalMatches 0 and is never
   admitted. *)
C12_CountsAreFollowedOccurrences ==
    Blended =>
        /\ \A j \in 1..Len(levels) :
              IsFollowerTable(data,
                              Suffix(context, Len(context) - levels[j].n),
                              levels[j].counts, levels[j].numMatches)
        /\ \A ii \in 0..(Len(context) - 1) :
              LET s == Suffix(context, ii)
                  counts == CountFollowers(data, Lookup(data, s), Len(s))
              IN /\ IsFollowerTable(data, s, counts, NumMatches(counts))
                 /\ OccursOnlyAtEnd(data, s) =>
                       /\ NumMatches(counts) = 0
                       /\ \A j \in 1..Len(levels) : levels[j].n # Len(s)

C12_Witness ==
    /\ op = "SampleK" /\ Len(levels) = 1
    /\ levels[1].numMatches = 2
    /\ Cardinality(DOMAIN levels[1].counts) = 1
    /\ OccursAt(data, context, Len(data) - Len(context))

C12_WitnessOnlyAtEnd ==
    /\ op = "Sample" /\ Len(context) = 2
    /\ OccursOnlyAtEnd(data, context)
    /\ Len(levels) = 1 /\ levels[1].n = 1

---------------------------------------------------------------------------
(* Claims about Generate, under SpecGen *)

\* no non-empty suffix of ctx occurs in d
Unseen(d, ctx) ==
    \A ii \in 0..(Len(ctx) - 1) : ~Occurs(d, Suffix(ctx, ii))

(* C3 as stated: the text Generate returns is never longer than maxSymbols. *)
C3_ResultWithinMax == pc = "done" => Len(result) <= maxChars

(* C3 amended: the text Generate returns is never longer than the larger of
   maxSymbols and the prompt's length (the prompt is returned whole, and is
   never extended once it has maxSymbols symbols or more). *)
C3_ResultWithinMaxOrPrompt ==
    pc \in {"loop", "break", "done"} =>
        /\ Len(result) <= Max(maxChars, Len(prompt))
        /\ Len(prompt) >= maxChars => result = prompt

C3_Witness ==
    /\ pc = "done" /\ Len(result) = maxChars /\ Len(prompt) < Len(result)

(* C4: when Generate (called with a valid temperature > 0) ends with
   len(text) < maxSymbols, the scanner admitted no level for the last queried
   context: no symbol was sampleable. *)
C4_EarlyStopOnlyWhenUnsampleable ==
    (pc = "done" /\ temp[1] > 0 /\ Len(result) < maxChars)
        => (op = "Sample" /\ levels = <<>>)

(* C7: for a context none of whose non-empty suffixes occurs in the corpus,
   the scanner admits no level, the blender yields no distribution, Sample
   returns no symbol and no per-level data, and Generate started from such a
   prompt returns exactly the prompt. *)
C7_UnseenContextIsAbsent ==
    /\ (op = "Sample" /\ Unseen(data, context)) =>
          /\ levels = <<>> /\ combined = EmptyMap /\ weights = EmptyMap
          /\ ch = 0 /\ nValues = <<>> /\ matchCounts = <<>>
          /\ pc \in {"break", "done"}
    /\ (pc = "done" /\ Unseen(data, Window(prompt))) =>
          /\ result = prompt
          /\ levelNs = <<>> /\ levelMatches = <<>> /\ stats = <<>>

C7_Witness ==
    /\ pc = "done" /\ op = "Sample" /\ k # 0
    /\ data # <<>> /\ prompt # <<>> /\ Len(prompt) < maxChars
    /\ Unseen(data, prompt)
    /\ result = prompt

---------------------------------------------------------------------------
(* Claims about Perplexity, under SpecPpl *)

\* the normalized blended weight of symbol c for context ctx, Zero if absent
NormalizedWeight(d, ctx, kk, c) ==
    LET comb == buildDistribution(d, ctx, kk).combined
    IN IF c \in DOMAIN comb
       THEN RatDiv(comb[c], RatSum(comb, DOMAIN comb))
       ELSE Zero

\* what the scored positions must look like when Perplexity returns
ScoredAsSpecified ==
    /\ Len(probs) = count
    /\ \A j \in 1..Len(probs) :
          LET ctx == SubSeq(text, Max(0, j - contextLen) + 1, j)
              nw == NormalizedWeight(data, ctx, k, text[j + 1])
              floor == Len(ScanLevels(data, ctx, k)) = 0 \/ nw = Zero
          IN /\ probs[j].i = j
             /\ probs[j].context = ctx
             /\ probs[j].smoothed = floor
             /\ ~floor => probs[j].p = nw
    /\ ppl.terms = probs /\ ppl.count = count

\* train "ABABAB", eval "AB", k = -1: probability 1 at the one scored
\* position, perplexity 1
ScenarioABABAB ==
    (data = TrainABABAB /\ text = EvalAB /\ k = -1)
        => /\ probs = <<[i |-> 1, context |-> <<1>>, smoothed |-> FALSE,
                         p |-> One]>>
           /\ ppl.isOne

(* C10 as stated: Perplexity scores exactly the positions 1 .. len(text)-1,
   each once, on the context text[max(0, i-contextWindow) : i], with the
   floor when no level is admitted or the normalized weight of text[i] is
   zero and the normalized weight otherwise; count = len(text)-1; and the
   scenario ABABAB / AB / k = -1 gives probability 1 and perplexity 1. *)
C10_PerplexityScoresEveryPosition ==
    pc = "scored" =>
        /\ ScoredAsSpecified
        /\ count = Len(text) - 1
        /\ ScenarioABABAB

(* C10 amended: as stated, except that count = max(0, len(text)-1) (the
   empty text scores nothing and has count 0, and with count = 0 the result
   is exp(-0/0) = NaN), and the scenario holds for contextWindow >= 1. *)
C10_PerplexityScoresPositions ==
    pc = "scored" =>
        /\ ScoredAsSpecified
        /\ count = Max(0, Len(text) - 1)
        /\ ppl.isNaN = (Len(text) <= 1)
        /\ contextLen >= 1 => ScenarioABABAB

C10_Witness ==
    /\ pc = "scored" /\ Len(text) = 3 /\ contextLen = 1 /\ k = -1
    /\ ~probs[1].smoothed /\ probs[1].p # One
    /\ probs[2].smoothed
    /\ Len(ScanLevels(data, probs[2].context, k)) > 0

C10_WitnessScenario ==
    /\ pc = "scored" /\ data = TrainABABAB /\ text = EvalAB /\ k = -1
    /\ ppl.isOne

---------------------------------------------------------------------------
(* Claims about termination of Generate and GenerateK, under SpecGenFair *)

\* the call is over: it returned, or GenerateK stopped with the panic of
\* make([][]int, k) before its loop
Returned == pc \in {"done", "kdone", "panic"}

InLoop == pc \in {"loop", "kloop"}

\* the trailing min(len(r), 200) symbols of r
Trailing(r) == SubSeq(r, Len(r) - Min(Len(r), 200) + 1, Len(r))

\* a step taken inside the loop either ends the run with the text unchanged
\* or appends exactly one symbol, keeping the text so far as a prefix; its
\* query context is the trailing window of the text before the step
IterationStep ==
    (InLoop /\ ~Returned') =>
        /\ context' = Trailing(result)
        /\ \/ /\ pc' \in {"break", "kbreak"}
              /\ result' = result
              /\ ch' = 0
           \/ /\ pc' = pc
              /\ Len(result') = Len(result) + 1
              /\ SubSeq(result', 1, Len(result)) = result
              /\ result'[Len(result')] = ch'

\* the text never changes outside the loop once the run has started
TextKept == (pc \notin {"new", "idle"} /\ ~InLoop) => result' = result

\* the prompt is a prefix of the text and at most
\* max(0, maxSymbols - len(prompt)) symbols have been appended
AppendBound ==
    pc \notin {"new", "idle"} =>
        /\ Len(result) >= Len(prompt)
        /\ SubSeq(result, 1, Len(prompt)) = prompt
        /\ Len(result) - Len(prompt) <= Max(0, maxChars - Len(prompt))

(* C13: every Generate run terminates: each loop iteration either ends the
   run or appends exactly one symbol, leaving the prompt and the earlier
   symbols as a prefix and querying the trailing min(len(text), 200)
   symbols; at most max(0, maxSymbols - len(prompt)) symbols are appended
   and the run eventually ends. *)
C13_GenerateTerminates ==
    /\ [][IterationStep /\ TextKept]_vars
    /\ []AppendBound
    /\ <>Returned
    /\ InLoop ~> (pc \in {"done", "kdone"})

C13_Witness ==
    /\ pc = "done" /\ Len(prompt) = 1 /\ maxChars = 3
    /\ Len(result) = 3
    /\ Len(levelNs) >= 1 /\ Len(levelNs[1]) = 2

C13_WitnessK ==
    /\ pc = "kdone" /\ Len(prompt) = 1 /\ maxChars = 3
    /\ Len(result) = 2

=============================================================================
